---- MODULE Spec2Model ----
(***************************************************************************)
(* The window-management core of Podplay Sanctuary:                        *)
(*   - WindowManager   (src/src/components/ui/window-manager.tsx)          *)
(*   - ResizableWindow (src/src/components/ui/resizable-window.tsx)        *)
(* and, each under a specification of its own (SpecPanel, SpecTerminal),   *)
(*   - the panels of AdvancedWorkspace (src/unnamed/part_005)              *)
(*   - the panes and sessions of MultiTerminal                             *)
(*     (src/src/components/ui/multi-terminal.tsx).                         *)
(* The manager owns the list `windows` and the counter `nextZIndex`; each  *)
(* rendered (non-minimized) window is a ResizableWindow that keeps its own *)
(* position/size/drag/resize state (`leaf`), seeded from the manager's     *)
(* record when it mounts.  Callbacks are React closures: a handler sees    *)
(* the state of the render in which it was created.  Handlers run by a     *)
(* click see the current state; the deferred step of applyLayoutPreset     *)
(* runs createWindow of the render in which the preset was clicked.        *)
(***************************************************************************)
EXTENDS Integers, Sequences, FiniteSets, TLC

VARIABLES
  windows,         \* WindowManager: useState<WindowState[]>([])
  nextZIndex,      \* WindowManager: useState(1)
  showLayoutMenu,  \* WindowManager: useState(false)
  timers,          \* pending setTimeout callbacks of applyLayoutPreset (FIFO)
  nextId,          \* the number of the next fresh window id
  leaf,            \* mounted ResizableWindow instances: id -> local state
  viewport,        \* window.innerWidth / window.innerHeight
  lastOp,          \* history: the operation that produced this state
  lastRaised,      \* history: id of the window created or focused last
  createRun,       \* history: k when the behaviour so far is k default creations
  handedOut,       \* history: the zIndex values given to a created or focused window
  defaultPlaced,   \* history: ids created at the default position, not moved since
  steps,           \* history: the number of operations so far
  panels,          \* AdvancedWorkspace: useState<WorkspacePanel[]>([])
  nextPanel,       \* the number of the next fresh panel id
  panelTimers,     \* pending setTimeout chains of the predefined layouts
  panes,           \* MultiTerminal: useState<TerminalPane[]>([main])
  nextSession,     \* the number standing for the next createSession's random suffix
  clock            \* the value Date.now() returned last

\* the WindowManager with its windows
wmVars == <<windows, nextZIndex, showLayoutMenu, timers, nextId, leaf, viewport,
            lastRaised, createRun, handedOut, defaultPlaced>>
\* the AdvancedWorkspace panels and the MultiTerminal panes
panelVars == <<panels, nextPanel, panelTimers>>
terminalVars == <<panes, nextSession, clock>>

vars == <<wmVars, lastOp, steps, panelVars, terminalVars>>

----------------------------------------------------------------------------
(* Bounds of the model *)

MaxSteps == 5       \* operations in one behaviour

(* Viewports: (innerWidth - 100) and (innerHeight - 150) divide by 1, 2, 3,
   so the tile arrangement's cell sizes are whole numbers of pixels. *)
Viewports ==
  { [innerWidth |-> 1000, innerHeight |-> 750],
    [innerWidth |-> 1900, innerHeight |-> 1050] }

(* Pointer offsets inside the header at which a drag is begun. *)
HeaderGrabs == { [x |-> 12, y |-> 12], [x |-> 200, y |-> 20] }

(* How far inside the window's outer edge a resize handle is grabbed.  The
   handles lie inside the root's 1px border; the edge handles (h-1 / w-1) are
   4px thick and the corner handles (w-2 h-2) 8px square, so these offsets
   are on the handle for all eight directions. *)
GrabOffsets == {2, 4}

(* Pointer positions of mousemove events; the pointer may leave the viewport
   while the button is held. *)
MovePoints ==
  { [x |-> -20, y |-> -20], [x |-> 400, y |-> 300],
    [x |-> 700, y |-> 500], [x |-> 2000, y |-> 1200] }

----------------------------------------------------------------------------
(* Helpers *)

Max(a, b) == IF a >= b THEN a ELSE b
Min(a, b) == IF a <= b THEN a ELSE b

\* Math.ceil(Math.sqrt(n))
CeilSqrt(n) == CHOOSE c \in 0..n : c * c >= n /\ (c = 0 \/ (c - 1) * (c - 1) < n)
\* Math.ceil(a / b), b > 0
CeilDiv(a, b) == (a + b - 1) \div b

Ids(ws) == { ws[i].id : i \in DOMAIN ws }
WindowOf(ws, id) == ws[CHOOSE i \in DOMAIN ws : ws[i].id = id]

----------------------------------------------------------------------------
(* WindowManager: data *)

layoutPresets ==
  << [ name |-> "Development",
       windows |-> <<
         [ title |-> "Code Editor", size |-> [width |-> 800, height |-> 600],
           position |-> [x |-> 50, y |-> 50], type |-> "editor" ],
         [ title |-> "Terminal", size |-> [width |-> 600, height |-> 300],
           position |-> [x |-> 50, y |-> 670], type |-> "terminal" ],
         [ title |-> "Globe", size |-> [width |-> 500, height |-> 600],
           position |-> [x |-> 870, y |-> 50], type |-> "browser" ] >> ],
     [ name |-> "Monitoring",
       windows |-> <<
         [ title |-> "System Monitor", size |-> [width |-> 600, height |-> 400],
           position |-> [x |-> 50, y |-> 50], type |-> "monitor" ],
         [ title |-> "Environment Status", size |-> [width |-> 600, height |-> 400],
           position |-> [x |-> 670, y |-> 50], type |-> "monitor" ],
         [ title |-> "Logs", size |-> [width |-> 1220, height |-> 300],
           position |-> [x |-> 50, y |-> 470], type |-> "terminal" ] >> ],
     [ name |-> "Tiled",
       windows |-> <<
         [ title |-> "Top Left", size |-> [width |-> 640, height |-> 360],
           position |-> [x |-> 50, y |-> 50], type |-> "custom" ],
         [ title |-> "Top Right", size |-> [width |-> 640, height |-> 360],
           position |-> [x |-> 710, y |-> 50], type |-> "custom" ],
         [ title |-> "Bottom Left", size |-> [width |-> 640, height |-> 360],
           position |-> [x |-> 50, y |-> 430], type |-> "custom" ],
         [ title |-> "Bottom Right", size |-> [width |-> 640, height |-> 360],
           position |-> [x |-> 710, y |-> 430], type |-> "custom" ] >> ] >>

(* The options of the three createWindow buttons: the toolbar's "New Window"
   passes none, the empty state's "Terminal" and "Globe" pass a type. *)
ButtonOptions ==
  [ new |-> [title |-> "New Window"],
    terminal |-> [title |-> "Terminal", type |-> "terminal"],
    browser |-> [title |-> "Globe", type |-> "browser"] ]

----------------------------------------------------------------------------
(* WindowManager: the callbacks, as functions of the state they read *)

(* Variant of createWindow: the caller's position is dropped, the cascade
   default is always used. *)
createWindow_ignoresPosition(id, title, options, capLen, capZ) ==
  [ id |-> id,
    title |-> IF "title" \in DOMAIN options THEN options.title ELSE title,
    position |-> [x |-> 100 + capLen * 30, y |-> 100 + capLen * 30],
    size |-> IF "size" \in DOMAIN options
             THEN options.size ELSE [width |-> 600, height |-> 400],
    isMinimized |-> FALSE,
    isMaximized |-> FALSE,
    zIndex |-> capZ,
    type |-> IF "type" \in DOMAIN options THEN options.type ELSE "custom" ]

(* Variant of createWindow: the cascade counts the new window too. *)
createWindow_cascadeOffByOne(id, title, options, capLen, capZ) ==
  [ id |-> id,
    title |-> IF "title" \in DOMAIN options THEN options.title ELSE title,
    position |-> IF "position" \in DOMAIN options
                 THEN options.position
                 ELSE [x |-> 100 + (capLen + 1) * 30, y |-> 100 + (capLen + 1) * 30],
    size |-> IF "size" \in DOMAIN options
             THEN options.size ELSE [width |-> 600, height |-> 400],
    isMinimized |-> FALSE,
    isMaximized |-> FALSE,
    zIndex |-> capZ,
    type |-> IF "type" \in DOMAIN options THEN options.type ELSE "custom" ]

(* createWindow: the record it appends.  capLen and capZ are windows.length
   and nextZIndex of the render whose closure runs. *)
createWindow(id, title, options, capLen, capZ) ==
  LET cascade == capLen * 30
      defaultPosition == [x |-> 100 + cascade, y |-> 100 + cascade]
  IN [ id |-> id,
       title |-> IF "title" \in DOMAIN options THEN options.title ELSE title,
       position |-> IF "position" \in DOMAIN options
                    THEN options.position ELSE defaultPosition,
       size |-> IF "size" \in DOMAIN options
                THEN options.size ELSE [width |-> 600, height |-> 400],
       isMinimized |-> FALSE,
       isMaximized |-> FALSE,
       zIndex |-> capZ,
       type |-> IF "type" \in DOMAIN options THEN options.type ELSE "custom" ]

(* Variant of focusWindow: the focused window gets the value after the
   counter's current one. *)
focusWindow_nextValue(ws, id, capZ) ==
  [ i \in DOMAIN ws |->
      [ws[i] EXCEPT !.zIndex = IF ws[i].id = id THEN capZ + 1 ELSE ws[i].zIndex] ]

focusWindow(ws, id, capZ) ==
  [ i \in DOMAIN ws |->
      [ws[i] EXCEPT !.zIndex = IF ws[i].id = id THEN capZ ELSE ws[i].zIndex] ]

(* Variant of closeWindow: the filter's test is inverted. *)
closeWindow_invertedFilter(ws, id) == SelectSeq(ws, LAMBDA w : w.id = id)

closeWindow(ws, id) == SelectSeq(ws, LAMBDA w : w.id # id)

(* Variant of minimizeWindow: minimizing also drops the maximized flag. *)
minimizeWindow_clearsMaximized(ws, id) ==
  [ i \in DOMAIN ws |->
      IF ws[i].id = id
      THEN [ws[i] EXCEPT !.isMinimized = ~ws[i].isMinimized, !.isMaximized = FALSE]
      ELSE ws[i] ]

minimizeWindow(ws, id) ==
  [ i \in DOMAIN ws |->
      [ws[i] EXCEPT !.isMinimized =
         IF ws[i].id = id THEN ~ws[i].isMinimized ELSE ws[i].isMinimized] ]

(* Variant of maximizeWindow: the flag is set, not toggled. *)
maximizeWindow_setsFlag(ws, id) ==
  [ i \in DOMAIN ws |->
      [ws[i] EXCEPT !.isMaximized = IF ws[i].id = id THEN TRUE ELSE ws[i].isMaximized] ]

maximizeWindow(ws, id) ==
  [ i \in DOMAIN ws |->
      [ws[i] EXCEPT !.isMaximized =
         IF ws[i].id = id THEN ~ws[i].isMaximized ELSE ws[i].isMaximized] ]

updateWindowPosition(ws, id, position) ==
  [ i \in DOMAIN ws |->
      [ws[i] EXCEPT !.position = IF ws[i].id = id THEN position ELSE ws[i].position] ]

updateWindowSize(ws, id, size) ==
  [ i \in DOMAIN ws |->
      [ws[i] EXCEPT !.size = IF ws[i].id = id THEN size ELSE ws[i].size] ]

(* The deferred step of applyLayoutPreset: one createWindow per entry, all
   through the createWindow closure the preset click captured. *)
presetWindows(entries, firstId, capLen, capZ) ==
  [ i \in DOMAIN entries |->
      createWindow(firstId + i - 1, entries[i].title, entries[i], capLen, capZ) ]

(* arrangeWindows *)
visibleWindows(ws) == SelectSeq(ws, LAMBDA w : ~w.isMinimized)

findIndex(s, id) == CHOOSE k \in DOMAIN s : s[k].id = id

(* Variant of arrangeCascade: the cascade also brings minimized windows back. *)
arrangeCascade_restoresAll(ws) ==
  [ i \in DOMAIN ws |->
      [ws[i] EXCEPT !.position = [x |-> 50 + (i - 1) * 30, y |-> 50 + (i - 1) * 30],
                    !.size = [width |-> 600, height |-> 400],
                    !.isMaximized = FALSE,
                    !.isMinimized = FALSE] ]

arrangeCascade(ws) ==
  [ i \in DOMAIN ws |->
      [ws[i] EXCEPT !.position = [x |-> 50 + (i - 1) * 30, y |-> 50 + (i - 1) * 30],
                    !.size = [width |-> 600, height |-> 400],
                    !.isMaximized = FALSE] ]

(* Variant of arrangeTile: the cell comes from the index in the whole list,
   not from the index among the visible windows. *)
arrangeTile_listIndex(ws, vp) ==
  LET vis == visibleWindows(ws)
      cols == CeilSqrt(Len(vis))
      rows == CeilDiv(Len(vis), cols)
      windowWidth == (vp.innerWidth - 100) \div cols
      windowHeight == (vp.innerHeight - 150) \div rows
  IN [ i \in DOMAIN ws |->
        IF ws[i].isMinimized THEN ws[i]
        ELSE [ws[i] EXCEPT
                !.position = [x |-> 50 + ((i - 1) % cols) * windowWidth,
                              y |-> 50 + ((i - 1) \div cols) * windowHeight],
                !.size = [width |-> windowWidth - 10, height |-> windowHeight - 10],
                !.isMaximized = FALSE] ]

arrangeTile(ws, vp) ==
  LET vis == visibleWindows(ws)
      containerWidth == vp.innerWidth - 100
      containerHeight == vp.innerHeight - 150
      cols == CeilSqrt(Len(vis))
      rows == CeilDiv(Len(vis), cols)
      windowWidth == containerWidth \div cols
      windowHeight == containerHeight \div rows
  IN [ i \in DOMAIN ws |->
        IF ws[i].isMinimized THEN ws[i]
        ELSE LET visibleIndex == findIndex(vis, ws[i].id) - 1
                 col == visibleIndex % cols
                 row == visibleIndex \div cols
             IN [ws[i] EXCEPT
                   !.position = [x |-> 50 + col * windowWidth,
                                 y |-> 50 + row * windowHeight],
                   !.size = [width |-> windowWidth - 10,
                             height |-> windowHeight - 10],
                   !.isMaximized = FALSE] ]

(* Variant of arrangeStack: the windows keep their zIndex. *)
arrangeStack_keepsZIndex(ws) ==
  [ i \in DOMAIN ws |->
      [ws[i] EXCEPT !.position = [x |-> 100, y |-> 100],
                    !.size = [width |-> 800, height |-> 600],
                    !.isMaximized = FALSE] ]

arrangeStack(ws) ==
  [ i \in DOMAIN ws |->
      [ws[i] EXCEPT !.position = [x |-> 100, y |-> 100],
                    !.size = [width |-> 800, height |-> 600],
                    !.isMaximized = FALSE,
                    !.zIndex = i] ]

arrangeWindows(ws, arrangement, vp) ==
  CASE arrangement = "cascade" -> arrangeCascade(ws)
    [] arrangement = "tile" -> arrangeTile(ws, vp)
    [] arrangement = "stack" -> arrangeStack(ws)

----------------------------------------------------------------------------
(* ResizableWindow: props and local state *)

draggable == TRUE
resizable == TRUE
minSize == [width |-> 300, height |-> 200]
maxSize(vp) == [width |-> vp.innerWidth - 100, height |-> vp.innerHeight - 100]

(* useState initial values of a ResizableWindow mounted for record w *)
mountWindow(w) ==
  [ position |-> w.position,
    size |-> w.size,
    isDragging |-> FALSE,
    isResizing |-> FALSE,
    resizeDirection |-> "",
    dragStart |-> [x |-> 0, y |-> 0],
    resizeStart |-> [x |-> 0, y |-> 0, width |-> 0, height |-> 0] ]

(* The manager renders one ResizableWindow, keyed by id, per non-minimized
   window: an instance that stays rendered keeps its local state, a new one
   is mounted from the record. *)
renderWindows(ws, old) ==
  [ id \in Ids(visibleWindows(ws)) |->
      IF id \in DOMAIN old THEN old[id] ELSE mountWindow(WindowOf(ws, id)) ]

Directions ==
  { "top", "bottom", "left", "right",
    "top-left", "top-right", "bottom-left", "bottom-right" }

\* resizeDirection.includes(part)
includes(direction, part) ==
  CASE part = "top" -> direction \in {"top", "top-left", "top-right"}
    [] part = "bottom" -> direction \in {"bottom", "bottom-left", "bottom-right"}
    [] part = "left" -> direction \in {"left", "top-left", "bottom-left"}
    [] part = "right" -> direction \in {"right", "top-right", "bottom-right"}

(* handleMouseMove, drag branch: the clamped position *)
dragPosition(l, e, vp) ==
  [ x |-> Max(0, Min(e.x - l.dragStart.x, vp.innerWidth - l.size.width)),
    y |-> Max(0, Min(e.y - l.dragStart.y, vp.innerHeight - l.size.height)) ]

(* handleMouseMove, resize branch: the new size and position *)
resizeGeometry(l, e, vp) ==
  LET deltaX == e.x - l.resizeStart.x
      deltaY == e.y - l.resizeStart.y
      dir == l.resizeDirection
      mn == minSize
      mx == maxSize(vp)
      w1 == IF includes(dir, "right")
            THEN Max(mn.width, Min(mx.width, l.resizeStart.width + deltaX))
            ELSE l.resizeStart.width
      newWidth == IF includes(dir, "left")
                  THEN Max(mn.width, Min(mx.width, l.resizeStart.width - deltaX))
                  ELSE w1
      newX == IF includes(dir, "left") THEN l.resizeStart.x + deltaX ELSE l.position.x
      h1 == IF includes(dir, "bottom")
            THEN Max(mn.height, Min(mx.height, l.resizeStart.height + deltaY))
            ELSE l.resizeStart.height
      newHeight == IF includes(dir, "top")
                   THEN Max(mn.height, Min(mx.height, l.resizeStart.height - deltaY))
                   ELSE h1
      newY == IF includes(dir, "top") THEN l.resizeStart.y + deltaY ELSE l.position.y
  IN [ size |-> [width |-> newWidth, height |-> newHeight],
       position |-> [x |-> newX, y |-> newY] ]

(* Variant of handleMouseUp: only the drag mode is left. *)
handleMouseUp_keepsResizing(l) == [l EXCEPT !.isDragging = FALSE]

(* handleMouseUp *)
handleMouseUp(l) ==
  [l EXCEPT !.isDragging = FALSE, !.isResizing = FALSE, !.resizeDirection = ""]

(* windowStyle: the rectangle and stacking value a mounted window is drawn
   with *)
windowStyle(w, l, vp) ==
  IF w.isMaximized
  THEN [ left |-> 0, top |-> 0, width |-> vp.innerWidth, height |-> vp.innerHeight,
         zIndex |-> w.zIndex + 1000 ]
  ELSE [ left |-> l.position.x, top |-> l.position.y,
         width |-> l.size.width, height |-> l.size.height, zIndex |-> w.zIndex ]

(* What the surface shows of window id: its style, or nothing when it is
   minimized (the manager filters it out and ResizableWindow returns null). *)
rendered(ws, lf, vp, id) ==
  IF id \in DOMAIN lf
  THEN windowStyle(WindowOf(ws, id), lf[id], vp)
  ELSE [hidden |-> TRUE]

----------------------------------------------------------------------------
(* State machine *)

\* lastOp.before: what a maximizeWindow (minimizeWindow) call found, kept over
\* a second such call that follows it directly on the same window
NoSnapshot == [calls |-> 0]

Op(op, id, hit) == [op |-> op, id |-> id, hit |-> hit, before |-> NoSnapshot]

EverIds == 1..(nextId - 1)

\* the mounted windows that are in drag or resize mode
Active == { id \in DOMAIN leaf : leaf[id].isDragging \/ leaf[id].isResizing }

\* every operation counts against the budget of the behaviour
Tick == steps < MaxSteps /\ steps' = steps + 1

(* A session id: `session-${stamp}` when rand is 0 (the initial 'session-1',
   the sessions of splitPane) and `session-${stamp}-${rand}` otherwise
   (createSession, rand numbered in the order the suffixes are drawn). *)
SessionId(stamp, rand) == [stamp |-> stamp, rand |-> rand]

\* the empty string as activeSessionId
NoSession == SessionId(0, 0)

(* MultiTerminal: the initial value of panes, one pane 'main' (pane id 0)
   holding 'session-1'; a pane id t > 0 is `pane-${t}`.  A size is the
   fraction n / d in lowest terms (d a power of two), so 100 is 100 / 1 and
   12.5 is 25 / 2. *)
initialPanes ==
  << [ id |-> 0,
       sessions |-> << [id |-> SessionId(1, 0), title |-> "Main Terminal"] >>,
       activeSessionId |-> SessionId(1, 0), position |-> "full",
       size |-> [n |-> 100, d |-> 1] ] >>

\* Date.now() when the component mounts: some millisecond after 1
InitialClock == 2

Init ==
  /\ windows = <<>>
  /\ nextZIndex = 1
  /\ showLayoutMenu = FALSE
  /\ timers = <<>>
  /\ nextId = 1
  /\ leaf = <<>>
  /\ viewport \in Viewports
  /\ lastOp = Op("init", 0, FALSE)
  /\ lastRaised = 0
  /\ createRun = 0
  /\ handedOut = {}
  /\ defaultPlaced = {}
  /\ steps = 0
  /\ panels = <<>>
  /\ nextPanel = 1
  /\ panelTimers = <<>>
  /\ panes = initialPanes
  /\ nextSession = 1
  /\ clock = InitialClock

(* A click on one of the createWindow buttons (toolbar "New Window"; the
   empty state's "Terminal" and "Globe"). *)
CreateWindow(button) ==
  /\ Tick
  /\ UNCHANGED <<panelVars, terminalVars>>
  /\ button \in {"terminal", "browser"} => Len(windows) = 0
  /\ LET w == createWindow(nextId, ButtonOptions[button].title,
                           ButtonOptions[button], Len(windows), nextZIndex)
     IN /\ windows' = Append(windows, w)
        /\ leaf' = renderWindows(windows', leaf)
  /\ nextZIndex' = nextZIndex + 1
  /\ nextId' = nextId + 1
  /\ lastOp' = Op("create", nextId, TRUE)
  /\ lastRaised' = nextId
  /\ createRun' = IF createRun >= 0 /\ button = "new" THEN createRun + 1 ELSE -1
  /\ handedOut' = handedOut \cup {nextZIndex}
  /\ defaultPlaced' = IF "position" \in DOMAIN ButtonOptions[button]
                      THEN defaultPlaced ELSE defaultPlaced \cup {nextId}
  /\ UNCHANGED <<showLayoutMenu, timers, viewport>>

(* focusWindow(id): a pointer-down inside the window outside its header and
   handles (onMouseDown={handleFocus}), or any call with a stale id. *)
FocusWindow(id) ==
  /\ Tick
  /\ UNCHANGED <<panelVars, terminalVars>>
  /\ windows' = focusWindow(windows, id, nextZIndex)
  /\ nextZIndex' = nextZIndex + 1
  /\ leaf' = renderWindows(windows', leaf)
  /\ lastOp' = Op("focus", id, id \in Ids(windows))
  /\ lastRaised' = IF id \in Ids(windows) THEN id ELSE lastRaised
  /\ createRun' = -1
  /\ handedOut' = IF id \in Ids(windows) THEN handedOut \cup {nextZIndex}
                  ELSE handedOut
  /\ UNCHANGED <<showLayoutMenu, timers, nextId, viewport, defaultPlaced>>

CloseWindow(id) ==
  /\ Tick
  /\ UNCHANGED <<panelVars, terminalVars>>
  /\ windows' = closeWindow(windows, id)
  /\ leaf' = renderWindows(windows', leaf)
  /\ lastOp' = Op("close", id, id \in Ids(windows))
  /\ createRun' = -1
  /\ defaultPlaced' = defaultPlaced \ {id}
  /\ UNCHANGED <<nextZIndex, showLayoutMenu, timers, nextId, viewport,
                 lastRaised, handedOut>>

(* The header's minimize button, or the taskbar button of a minimized window *)
MinimizeWindow(id) ==
  /\ Tick
  /\ UNCHANGED <<panelVars, terminalVars>>
  /\ windows' = minimizeWindow(windows, id)
  /\ leaf' = renderWindows(windows', leaf)
  /\ lastOp' =
       [ Op("minimize", id, id \in Ids(windows)) EXCEPT !.before =
           IF id \notin Ids(windows) THEN NoSnapshot
           ELSE IF lastOp.op = "minimize" /\ lastOp.id = id /\ lastOp.before.calls = 1
                THEN [lastOp.before EXCEPT !.calls = 2]
                ELSE [ calls |-> 1,
                       window |-> WindowOf(windows, id),
                       style |-> rendered(windows, leaf, viewport, id) ] ]
  /\ createRun' = -1
  /\ UNCHANGED <<nextZIndex, showLayoutMenu, timers, nextId, viewport,
                 lastRaised, handedOut, defaultPlaced>>

MaximizeWindow(id) ==
  /\ Tick
  /\ UNCHANGED <<panelVars, terminalVars>>
  /\ windows' = maximizeWindow(windows, id)
  /\ leaf' = renderWindows(windows', leaf)
  /\ lastOp' =
       [ Op("maximize", id, id \in Ids(windows)) EXCEPT !.before =
           IF id \notin Ids(windows) THEN NoSnapshot
           ELSE IF lastOp.op = "maximize" /\ lastOp.id = id /\ lastOp.before.calls = 1
                THEN [lastOp.before EXCEPT !.calls = 2]
                ELSE [ calls |-> 1,
                       window |-> WindowOf(windows, id),
                       style |-> rendered(windows, leaf, viewport, id) ] ]
  /\ createRun' = -1
  /\ UNCHANGED <<nextZIndex, showLayoutMenu, timers, nextId, viewport,
                 lastRaised, handedOut, defaultPlaced>>

(* updateWindowPosition / updateWindowSize reached with the id of a window
   that is no longer in the collection (a live window's calls are those of
   MouseMove). *)
StaleUpdatePosition(id, position) ==
  /\ Tick
  /\ UNCHANGED <<panelVars, terminalVars>>
  /\ id \notin Ids(windows)
  /\ windows' = updateWindowPosition(windows, id, position)
  /\ leaf' = renderWindows(windows', leaf)
  /\ lastOp' = Op("position", id, FALSE)
  /\ createRun' = -1
  /\ UNCHANGED <<nextZIndex, showLayoutMenu, timers, nextId, viewport, lastRaised,
                 handedOut, defaultPlaced>>

StaleUpdateSize(id, size) ==
  /\ Tick
  /\ UNCHANGED <<panelVars, terminalVars>>
  /\ id \notin Ids(windows)
  /\ windows' = updateWindowSize(windows, id, size)
  /\ leaf' = renderWindows(windows', leaf)
  /\ lastOp' = Op("size", id, FALSE)
  /\ createRun' = -1
  /\ UNCHANGED <<nextZIndex, showLayoutMenu, timers, nextId, viewport, lastRaised,
                 handedOut, defaultPlaced>>

ToggleLayoutMenu ==
  /\ Tick
  /\ UNCHANGED <<panelVars, terminalVars>>
  /\ showLayoutMenu' = ~showLayoutMenu
  /\ lastOp' = Op("menu", 0, FALSE)
  /\ createRun' = -1
  /\ UNCHANGED <<windows, nextZIndex, timers, nextId, leaf, viewport,
                 lastRaised, handedOut, defaultPlaced>>

(* applyLayoutPreset, synchronous part: clear the windows and schedule the
   creation.  The buttons: the layout menu's entries, and the empty state's
   "Development Layout". *)
ApplyLayoutPreset(p) ==
  /\ Tick
  /\ UNCHANGED <<panelVars, terminalVars>>
  /\ showLayoutMenu \/ (p = 1 /\ Len(windows) = 0)
  /\ windows' = <<>>
  /\ timers' = Append(timers, [preset |-> p, z |-> nextZIndex, len |-> Len(windows)])
  /\ leaf' = renderWindows(windows', leaf)
  /\ lastOp' = Op("preset", p, FALSE)
  /\ createRun' = -1
  /\ defaultPlaced' = {}
  /\ UNCHANGED <<nextZIndex, showLayoutMenu, nextId, viewport, lastRaised,
                 handedOut>>

(* applyLayoutPreset, the setTimeout callback *)
PresetTimeout ==
  /\ Tick
  /\ UNCHANGED <<panelVars, terminalVars>>
  /\ timers # <<>>
  /\ LET t == Head(timers)
         entries == layoutPresets[t.preset].windows
         n == Len(entries)
     IN /\ windows' = windows \o presetWindows(entries, nextId, t.len, t.z)
        /\ nextZIndex' = nextZIndex + n
        /\ nextId' = nextId + n
        /\ lastRaised' = nextId + n - 1
        /\ lastOp' = Op("timer", t.preset, FALSE)
        /\ handedOut' = IF n > 0 THEN handedOut \cup {t.z} ELSE handedOut
  /\ timers' = Tail(timers)
  /\ showLayoutMenu' = FALSE
  /\ leaf' = renderWindows(windows', leaf)
  /\ createRun' = -1
  /\ UNCHANGED <<viewport, defaultPlaced>>

(* arrangeWindows: the toolbar has buttons for cascade and tile; stack is the
   third mode of the same callback. *)
ArrangeWindows(arrangement) ==
  /\ Tick
  /\ UNCHANGED <<panelVars, terminalVars>>
  /\ windows' = arrangeWindows(windows, arrangement, viewport)
  /\ leaf' = renderWindows(windows', leaf)
  /\ lastOp' = Op(arrangement, 0, FALSE)
  /\ createRun' = -1
  /\ defaultPlaced' = { id \in defaultPlaced :
                          WindowOf(windows', id).position = WindowOf(windows, id).position }
  /\ UNCHANGED <<nextZIndex, showLayoutMenu, timers, nextId, viewport,
                 lastRaised, handedOut>>

(* Pointer-down on the header of a rendered window: handleMouseDown, then the
   event bubbles to the window's own onMouseDown={handleFocus}.  Both
   handleFocus calls run focusWindow of the same render. *)
MouseDownHeader(id, grab) ==
  /\ Tick
  /\ UNCHANGED <<panelVars, terminalVars>>
  /\ id \in DOMAIN leaf
  /\ LET w == WindowOf(windows, id)
         l == leaf[id]
         e == IF w.isMaximized
              THEN [x |-> grab.x, y |-> grab.y]
              ELSE [x |-> l.position.x + grab.x, y |-> l.position.y + grab.y]
         drags == draggable /\ ~w.isMaximized
     IN /\ e.x >= 0 /\ e.x < viewport.innerWidth
        /\ e.y >= 0 /\ e.y < viewport.innerHeight
        /\ ~w.isMaximized => grab.x < l.size.width /\ grab.y < l.size.height
        /\ windows' = focusWindow(windows, id, nextZIndex)
        /\ nextZIndex' = nextZIndex + (IF drags THEN 2 ELSE 1)
        /\ leaf' = IF drags
                   THEN [leaf EXCEPT ![id].isDragging = TRUE,
                                     ![id].dragStart = [x |-> e.x - l.position.x,
                                                        y |-> e.y - l.position.y]]
                   ELSE leaf
  /\ lastOp' = Op("mousedown", id, TRUE)
  /\ lastRaised' = id
  /\ createRun' = -1
  /\ handedOut' = handedOut \cup {nextZIndex}
  /\ UNCHANGED <<showLayoutMenu, timers, nextId, viewport, defaultPlaced>>

(* Pointer-down on one of the eight resize handles (rendered only when the
   window is resizable and not maximized): handleResizeStart, which stops the
   event's propagation.  A corner handle is grabbed g pixels inside both
   edges, an edge handle g pixels inside its edge at the middle of the edge.
   Like handleMouseDown, the handler does not look at the modes windows are
   already in. *)
ResizeStart(id, direction, g) ==
  /\ Tick
  /\ UNCHANGED <<panelVars, terminalVars>>
  /\ id \in DOMAIN leaf
  /\ LET w == WindowOf(windows, id)
         l == leaf[id]
         e == [ x |-> IF includes(direction, "left") THEN l.position.x + g
                      ELSE IF includes(direction, "right")
                           THEN l.position.x + l.size.width - 1 - g
                           ELSE l.position.x + l.size.width \div 2,
                y |-> IF includes(direction, "top") THEN l.position.y + g
                      ELSE IF includes(direction, "bottom")
                           THEN l.position.y + l.size.height - 1 - g
                           ELSE l.position.y + l.size.height \div 2 ]
     IN /\ resizable /\ ~w.isMaximized
        /\ e.x >= 0 /\ e.x < viewport.innerWidth
        /\ e.y >= 0 /\ e.y < viewport.innerHeight
        /\ leaf' = [leaf EXCEPT ![id].isResizing = TRUE,
                                ![id].resizeDirection = direction,
                                ![id].resizeStart = [x |-> e.x, y |-> e.y,
                                                     width |-> l.size.width,
                                                     height |-> l.size.height]]
  /\ windows' = focusWindow(windows, id, nextZIndex)
  /\ nextZIndex' = nextZIndex + 1
  /\ lastOp' = Op("resizestart", id, TRUE)
  /\ lastRaised' = id
  /\ createRun' = -1
  /\ handedOut' = handedOut \cup {nextZIndex}
  /\ UNCHANGED <<showLayoutMenu, timers, nextId, viewport, defaultPlaced>>

(* handleMouseMove of one window in drag or resize mode: its local state
   after the event and the record the manager holds after onResize / onMove *)
mouseMoveLeaf(l, w, e, vp) ==
  LET dragged == l.isDragging /\ ~w.isMaximized
      p1 == dragPosition(l, e, vp)
      r == resizeGeometry(l, e, vp)
  IN [l EXCEPT !.position = IF l.isResizing THEN r.position
                            ELSE IF dragged THEN p1 ELSE l.position,
               !.size = IF l.isResizing THEN r.size ELSE l.size]

mouseMoveWindow(w, l, e, vp) ==
  LET dragged == l.isDragging /\ ~w.isMaximized
      p1 == dragPosition(l, e, vp)
      r == resizeGeometry(l, e, vp)
      ws1 == IF dragged THEN updateWindowPosition(<<w>>, w.id, p1) ELSE <<w>>
      ws2 == IF l.isResizing
             THEN updateWindowPosition(updateWindowSize(ws1, w.id, r.size),
                                       w.id, r.position)
             ELSE ws1
  IN ws2[1]

(* A mousemove on the document: every window in drag or resize mode has its
   own listener (it exists only while isDragging or isResizing), and the one
   event runs them all. *)
MouseMove(e) ==
  /\ Tick
  /\ UNCHANGED <<panelVars, terminalVars>>
  /\ Active # {}
  /\ windows' = [ i \in DOMAIN windows |->
                    IF windows[i].id \in Active
                    THEN mouseMoveWindow(windows[i], leaf[windows[i].id], e, viewport)
                    ELSE windows[i] ]
  /\ leaf' = [ id \in DOMAIN leaf |->
                 IF id \in Active
                 THEN mouseMoveLeaf(leaf[id], WindowOf(windows, id), e, viewport)
                 ELSE leaf[id] ]
  /\ lastOp' = Op("mousemove", 0, TRUE)
  /\ createRun' = -1
  /\ defaultPlaced' =
       { id \in defaultPlaced :
           WindowOf(windows', id).position = WindowOf(windows, id).position }
  /\ UNCHANGED <<nextZIndex, showLayoutMenu, timers, nextId, viewport, lastRaised,
                 handedOut>>

(* A mouseup on the document: handleMouseUp of every window in drag or resize
   mode *)
MouseUp ==
  /\ Tick
  /\ UNCHANGED <<panelVars, terminalVars>>
  /\ Active # {}
  /\ leaf' = [ id \in DOMAIN leaf |->
                 IF id \in Active THEN handleMouseUp(leaf[id]) ELSE leaf[id] ]
  /\ lastOp' = Op("mouseup", 0, TRUE)
  /\ createRun' = -1
  /\ UNCHANGED <<windows, nextZIndex, showLayoutMenu, timers, nextId, viewport,
                 lastRaised, handedOut, defaultPlaced>>

Next ==
  \/ \E b \in {"new", "terminal", "browser"} : CreateWindow(b)
  \/ \E id \in EverIds : FocusWindow(id)
  \/ \E id \in EverIds : CloseWindow(id)
  \/ \E id \in EverIds : MinimizeWindow(id)
  \/ \E id \in EverIds : MaximizeWindow(id)
  \/ \E id \in EverIds : StaleUpdatePosition(id, [x |-> 0, y |-> 0])
  \/ \E id \in EverIds : StaleUpdateSize(id, minSize)
  \/ ToggleLayoutMenu
  \/ \E p \in DOMAIN layoutPresets : ApplyLayoutPreset(p)
  \/ PresetTimeout
  \/ \E a \in {"cascade", "tile", "stack"} : ArrangeWindows(a)
  \/ \E id \in DOMAIN leaf, grab \in HeaderGrabs : MouseDownHeader(id, grab)
  \/ \E id \in DOMAIN leaf, d \in Directions, g \in GrabOffsets : ResizeStart(id, d, g)
  \/ \E e \in MovePoints : MouseMove(e)
  \/ MouseUp

Spec == Init /\ [][Next]_vars

----------------------------------------------------------------------------
(* AdvancedWorkspace (src/unnamed/part_005): the panels *)

(* Positions and sizes carried by the panels' drag-end and resize
   notifications. *)
PanelPositions == { [x |-> 0, y |-> 0], [x |-> 200, y |-> 120] }
PanelSizes == { [width |-> 300, height |-> 200], [width |-> 640, height |-> 480] }

(* createPanel: the record it appends; capLen is panels.length of the render
   whose closure runs *)
createPanel(id, type, title, capLen) ==
  [ id |-> id,
    title |-> title,
    type |-> type,
    position |-> [x |-> 50 + capLen * 30, y |-> 50 + capLen * 30],
    size |-> [width |-> 400, height |-> 300],
    visible |-> TRUE,
    locked |-> FALSE,
    collapsed |-> FALSE ]

(* updatePanel: { ...panel, ...updates } for the panel with that id *)
updatePanel(ps, id, updates) ==
  [ i \in DOMAIN ps |->
      IF ps[i].id = id
      THEN [ k \in DOMAIN ps[i] |->
               IF k \in DOMAIN updates THEN updates[k] ELSE ps[i][k] ]
      ELSE ps[i] ]

removePanel(ps, id) == SelectSeq(ps, LAMBDA q : q.id # id)

PanelOf(ps, id) == ps[CHOOSE i \in DOMAIN ps : ps[i].id = id]

\* the panels that are rendered, each inside a DragDropPanel
VisiblePanels == { panels[i].id : i \in { j \in DOMAIN panels : panels[j].visible } }

PanelStep(op, id) ==
  /\ Tick
  /\ lastOp' = Op(op, id, TRUE)
  /\ UNCHANGED <<wmVars, terminalVars>>

(* The quick panel creators (createTerminalPanel, createCodeEditorPanel,
   createMonitorPanel, createBrowserPanel): the title each passes with its
   type. *)
panelTitles ==
  [ terminal |-> "Terminal",
    editor   |-> "Code Editor",
    monitor  |-> "System Monitor",
    browser  |-> "Browser" ]

(* createDevelopmentLayout / createMonitoringLayout: the three panels their
   timer callbacks create, in the order the callbacks run; updates is what
   updatePanel is called with after the creation (none for the first). *)
panelLayouts ==
  [ development |->
      << [ type |-> "editor", title |-> "Code Editor", updates |-> <<>> ],
         [ type |-> "terminal", title |-> "Terminal",
           updates |-> [ position |-> [x |-> 50, y |-> 350],
                         size |-> [width |-> 600, height |-> 250] ] ],
         [ type |-> "browser", title |-> "Preview",
           updates |-> [ position |-> [x |-> 670, y |-> 50],
                         size |-> [width |-> 400, height |-> 500] ] ] >>,
    monitoring |->
      << [ type |-> "monitor", title |-> "System Monitor", updates |-> <<>> ],
         [ type |-> "monitor", title |-> "Network Monitor",
           updates |-> [ position |-> [x |-> 450, y |-> 50],
                         size |-> [width |-> 400, height |-> 300] ] ],
         [ type |-> "terminal", title |-> "Logs",
           updates |-> [ position |-> [x |-> 50, y |-> 370],
                         size |-> [width |-> 800, height |-> 200] ] ] >> ]

(* A click on one of the toolbar's four "New ..." buttons *)
CreatePanel(type) ==
  /\ PanelStep("createpanel", nextPanel)
  /\ panels' = Append(panels,
                      createPanel(nextPanel, type, panelTitles[type], Len(panels)))
  /\ nextPanel' = nextPanel + 1
  /\ UNCHANGED panelTimers

(* clearWorkspace with confirm() answered OK: setPanels([]).  (Answered
   Cancel it changes nothing.) *)
ClearWorkspace ==
  /\ PanelStep("clearworkspace", 0)
  /\ panels' = <<>>
  /\ UNCHANGED <<nextPanel, panelTimers>>

(* createDevelopmentLayout / createMonitoringLayout, the click: setPanels([])
   and the outer setTimeout.  The callbacks use the createPanel of the render
   that was clicked, so they keep that render's panels.length. *)
CreateLayout(layout) ==
  /\ PanelStep("createlayout", 0)
  /\ panels' = <<>>
  /\ panelTimers' = Append(panelTimers,
                           [layout |-> layout, len |-> Len(panels), stage |-> 1])
  /\ UNCHANGED nextPanel

(* The next timer callback of the i-th pending layout: the outer callback
   (stage 1) creates the first panel and sets the two inner timers (100 ms
   and 200 ms), whose callbacks (stages 2 and 3) create a panel and call
   updatePanel on it.  A callback runs after the callback of the same stage
   of every layout clicked earlier; otherwise the order depends on the time
   between the clicks. *)
LayoutTimeout(i) ==
  /\ \A j \in 1..(i - 1) : panelTimers[j].stage > panelTimers[i].stage
  /\ PanelStep("layouttimer", nextPanel)
  /\ LET t == panelTimers[i]
         entry == panelLayouts[t.layout][t.stage]
         created == Append(panels,
                           createPanel(nextPanel, entry.type, entry.title, t.len))
     IN /\ panels' = IF t.stage = 1 THEN created
                     ELSE updatePanel(created, nextPanel, entry.updates)
        /\ panelTimers' =
             IF t.stage = 3
             THEN SubSeq(panelTimers, 1, i - 1)
                    \o SubSeq(panelTimers, i + 1, Len(panelTimers))
             ELSE [panelTimers EXCEPT ![i].stage = t.stage + 1]
  /\ nextPanel' = nextPanel + 1

(* onLock={(id, locked) => updatePanel(id, { locked })} *)
PanelLock(id, locked) ==
  /\ PanelStep("panellock", id)
  /\ panels' = updatePanel(panels, id, [locked |-> locked])
  /\ UNCHANGED <<nextPanel, panelTimers>>

(* onCollapse={(id, collapsed) => updatePanel(id, { collapsed })} *)
PanelCollapse(id, collapsed) ==
  /\ PanelStep("panelcollapse", id)
  /\ panels' = updatePanel(panels, id, [collapsed |-> collapsed])
  /\ UNCHANGED <<nextPanel, panelTimers>>

(* onResize={(id, size) => updatePanel(id, { size })} *)
PanelResize(id, size) ==
  /\ PanelStep("panelresize", id)
  /\ panels' = updatePanel(panels, id, [size |-> size])
  /\ UNCHANGED <<nextPanel, panelTimers>>

(* onDragEnd={(id, position) => updatePanel(id, { position })} *)
PanelDragEnd(id, position) ==
  /\ PanelStep("paneldragend", id)
  /\ panels' = updatePanel(panels, id, [position |-> position])
  /\ UNCHANGED <<nextPanel, panelTimers>>

(* onClose={removePanel} *)
PanelClose(id) ==
  /\ PanelStep("panelclose", id)
  /\ panels' = removePanel(panels, id)
  /\ UNCHANGED <<nextPanel, panelTimers>>

(* togglePanelVisibility: updatePanel(id, { visible: false }) *)
TogglePanelVisibility(id) ==
  /\ PanelStep("panelhide", id)
  /\ panels' = updatePanel(panels, id, [visible |-> FALSE])
  /\ UNCHANGED <<nextPanel, panelTimers>>

PanelNext ==
  \/ \E type \in DOMAIN panelTitles : CreatePanel(type)
  \/ ClearWorkspace
  \/ \E layout \in DOMAIN panelLayouts : CreateLayout(layout)
  \/ \E i \in DOMAIN panelTimers : LayoutTimeout(i)
  \/ \E id \in VisiblePanels, b \in BOOLEAN : PanelLock(id, b)
  \/ \E id \in VisiblePanels, b \in BOOLEAN : PanelCollapse(id, b)
  \/ \E id \in VisiblePanels, size \in PanelSizes : PanelResize(id, size)
  \/ \E id \in VisiblePanels, position \in PanelPositions : PanelDragEnd(id, position)
  \/ \E id \in VisiblePanels : PanelClose(id)
  \/ \E id \in VisiblePanels : TogglePanelVisibility(id)

SpecPanel == Init /\ [][PanelNext]_vars

----------------------------------------------------------------------------
(* MultiTerminal (src/src/components/ui/multi-terminal.tsx): panes and
   sessions *)

SessionIds(pane) == { pane.sessions[k].id : k \in DOMAIN pane.sessions }

(* createSession: the new session is appended to the pane and made active *)
createSession(ps, paneId, sessionId) ==
  [ i \in DOMAIN ps |->
      IF ps[i].id = paneId
      THEN [ps[i] EXCEPT
              !.sessions = Append(@, [id |-> sessionId, title |-> "Terminal"]),
              !.activeSessionId = sessionId]
      ELSE ps[i] ]

(* Variant of closeSession: the pane's active id is left as it is. *)
closeSession_keepsActive(ps, paneId, sessionId) ==
  [ i \in DOMAIN ps |->
      IF ps[i].id = paneId
      THEN [ps[i] EXCEPT
              !.sessions = SelectSeq(@, LAMBDA x : x.id # sessionId)]
      ELSE ps[i] ]

(* closeSession: the session is filtered out and the last remaining session
   (or '') becomes the active one *)
closeSession(ps, paneId, sessionId) ==
  [ i \in DOMAIN ps |->
      IF ps[i].id = paneId
      THEN LET remainingSessions ==
                 SelectSeq(ps[i].sessions, LAMBDA x : x.id # sessionId)
               activeSession ==
                 IF Len(remainingSessions) > 0
                 THEN remainingSessions[Len(remainingSessions)].id
                 ELSE NoSession
           IN [ps[i] EXCEPT !.sessions = remainingSessions,
                            !.activeSessionId = activeSession]
      ELSE ps[i] ]

(* switchSession *)
switchSession(ps, paneId, sessionId) ==
  [ i \in DOMAIN ps |->
      [ps[i] EXCEPT !.activeSessionId =
         IF ps[i].id = paneId THEN sessionId ELSE ps[i].activeSessionId] ]

(* size / 2 on a fraction in lowest terms *)
Half(size) ==
  IF size.n % 2 = 0
  THEN [n |-> size.n \div 2, d |-> size.d]
  ELSE [n |-> size.n, d |-> size.d * 2]

(* splitPane: every pane's size is halved and a pane with one new session is
   appended *)
splitPane(ps, newPaneId, newSessionId, orientation) ==
  Append([ i \in DOMAIN ps |-> [ps[i] EXCEPT !.size = Half(ps[i].size)] ],
         [ id |-> newPaneId,
           sessions |-> << [id |-> newSessionId, title |-> "Split Terminal"] >>,
           activeSessionId |-> newSessionId,
           position |-> IF orientation = "horizontal" THEN "right" ELSE "bottom",
           size |-> [n |-> 50, d |-> 1] ])

(* What a call of Date.now() can return: the millisecond of the call before
   or a later one (later ones differ only by name). *)
Now(last) == {last, last + 1}

(* The calls below are made for a pane of the list, panes[i], with its id:
   every element that calls them belongs to a pane (its tabs, their X, its
   "+"; the toolbar uses panes[0]).  lastOp.id is i.
   hit: that pane's active session was the one named. *)
TerminalStep(op, i, sessionId) ==
  /\ Tick
  /\ lastOp' = Op(op, i, i \in DOMAIN panes /\ panes[i].activeSessionId = sessionId)
  /\ UNCHANGED <<wmVars, panelVars>>

(* createSession(pane.id): Date.now() is read for the id (t) and again for
   the title (u), which is modelled without its digits *)
CreateSession(i, t, u) ==
  /\ TerminalStep("createsession", i, SessionId(t, nextSession))
  /\ panes' = createSession(panes, panes[i].id, SessionId(t, nextSession))
  /\ nextSession' = nextSession + 1
  /\ clock' = u

(* closeSession(pane.id, session.id) for a session of panes[i] *)
CloseSession(i, sessionId) ==
  /\ sessionId \in SessionIds(panes[i])
  /\ TerminalStep("closesession", i, sessionId)
  /\ panes' = closeSession(panes, panes[i].id, sessionId)
  /\ UNCHANGED <<nextSession, clock>>

(* switchSession(pane.id, session.id) for a session of panes[i] *)
SwitchSession(i, sessionId) ==
  /\ sessionId \in SessionIds(panes[i])
  /\ TerminalStep("switchsession", i, sessionId)
  /\ panes' = switchSession(panes, panes[i].id, sessionId)
  /\ UNCHANGED <<nextSession, clock>>

(* The toolbar's split buttons: splitPane(panes[0]?.id, orientation).
   Date.now() is read for the pane's id (t) and again for the session's id
   (u). *)
SplitPane(orientation, t, u) ==
  /\ TerminalStep("splitpane", Len(panes) + 1, SessionId(u, 0))
  /\ panes' = splitPane(panes, t, SessionId(u, 0), orientation)
  /\ clock' = u
  /\ UNCHANGED nextSession

TerminalNext ==
  \/ \E i \in DOMAIN panes, t \in Now(clock) : \E u \in Now(t) :
       CreateSession(i, t, u)
  \/ \E i \in DOMAIN panes : \E sessionId \in SessionIds(panes[i]) :
       CloseSession(i, sessionId)
  \/ \E i \in DOMAIN panes : \E sessionId \in SessionIds(panes[i]) :
       SwitchSession(i, sessionId)
  \/ \E o \in {"horizontal", "vertical"}, t \in Now(clock) : \E u \in Now(t) :
       SplitPane(o, t, u)

SpecTerminal == Init /\ [][TerminalNext]_vars

----------------------------------------------------------------------------
(* Properties *)

Live == DOMAIN windows

\* the entry-by-entry image of preset p: n windows, in list order, with the
\* entry's title, position, size and type
PresetMatches(ws, p) ==
  LET entries == layoutPresets[p].windows
  IN /\ Len(ws) = Len(entries)
     /\ \A i \in DOMAIN entries :
          /\ ws[i].title = entries[i].title
          /\ ws[i].position = entries[i].position
          /\ ws[i].size = (IF "size" \in DOMAIN entries[i] THEN entries[i].size
                           ELSE [width |-> 600, height |-> 400])
          /\ ws[i].type = (IF "type" \in DOMAIN entries[i] THEN entries[i].type
                           ELSE "custom")

\* C1: the zIndex values of the live windows are pairwise distinct in every
\* reachable state.
C1_UniqueZIndex ==
  \A i, j \in Live : i # j => windows[i].zIndex # windows[j].zIndex

\* C2: the live window created or focused last has a zIndex strictly greater
\* than that of every other live window.
C2_LastRaisedOnTop ==
  lastRaised \in Ids(windows) =>
    \A i \in Live :
      windows[i].id # lastRaised =>
        WindowOf(windows, lastRaised).zIndex > windows[i].zIndex

\* the move that produced this state was an intermediate move of a drag
\* sequence of window id (begin drag, pointer moves, pointer-up): the handler
\* ran its drag branch (isDragging && !isMaximized) for it and, no resize
\* having been begun, nothing else
DragMoved(id) ==
  /\ lastOp.op = "mousemove"
  /\ id \in DOMAIN leaf
  /\ leaf[id].isDragging
  /\ ~leaf[id].isResizing
  /\ ~WindowOf(windows, id).isMaximized

\* the move that produced this state ran the resize branch for window id
ResizeMoved(id) ==
  /\ lastOp.op = "mousemove"
  /\ id \in DOMAIN leaf
  /\ leaf[id].isResizing

\* C3: after every pointer move of a drag, 0 <= x <= viewportWidth -
\* windowWidth and 0 <= y <= viewportHeight - windowHeight, and that position
\* is the one reported through onMove.
C3_DragWithinViewport ==
  \A id \in DOMAIN leaf :
    DragMoved(id) =>
      /\ 0 <= leaf[id].position.x
      /\ leaf[id].position.x <= viewport.innerWidth - leaf[id].size.width
      /\ 0 <= leaf[id].position.y
      /\ leaf[id].position.y <= viewport.innerHeight - leaf[id].size.height
      /\ WindowOf(windows, id).position = leaf[id].position

\* C4: after every pointer move of a resize, from any handle, the width lies in
\* [minSize.width, maxSize.width] and the height in [minSize.height,
\* maxSize.height].
C4_ResizeWithinBounds ==
  \A id \in DOMAIN leaf :
    ResizeMoved(id) =>
      /\ minSize.width <= leaf[id].size.width
      /\ leaf[id].size.width <= maxSize(viewport).width
      /\ minSize.height <= leaf[id].size.height
      /\ leaf[id].size.height <= maxSize(viewport).height

\* C5: a resize move from a handle that includes "left" leaves the right edge
\* (position.x + width) where it was, and one from a handle that includes
\* "top" leaves the bottom edge (position.y + height) where it was.
C5_OppositeEdgeFixed ==
  [][ \A id \in DOMAIN leaf :
        (lastOp'.op = "mousemove" /\ leaf[id].isResizing) =>
          /\ includes(leaf[id].resizeDirection, "left") =>
               leaf'[id].position.x + leaf'[id].size.width
                 = leaf[id].position.x + leaf[id].size.width
          /\ includes(leaf[id].resizeDirection, "top") =>
               leaf'[id].position.y + leaf'[id].size.height
                 = leaf[id].position.y + leaf[id].size.height ]_vars

\* C6: closeWindow(id) on a live id removes exactly that window and leaves the
\* other records, and their order, unchanged; on an id that is not live (a
\* second close) it changes nothing.
C6_CloseRemovesOne ==
  [][ lastOp'.op = "close" =>
        LET id == lastOp'.id
            kept == { i \in DOMAIN windows : windows[i].id # id }
        IN /\ Len(windows') = Cardinality(kept)
           /\ id \notin Ids(windows')
           /\ \A i \in kept :
                windows'[Cardinality({ j \in kept : j <= i })] = windows[i]
           /\ id \in Ids(windows) => Len(windows') = Len(windows) - 1
           /\ id \notin Ids(windows) => windows' = windows
           /\ closeWindow(windows', id) = windows'
           /\ nextZIndex' = nextZIndex ]_vars

\* a close of an id that is no longer live, with other windows still open
C6_Witness ==
  /\ lastOp.op = "close" /\ ~lastOp.hit
  /\ lastOp.id < nextId
  /\ windows # <<>>
  /\ timers = <<>>

\* C7: applyLayoutPreset(P) followed directly by its deferred step, with no
\* other preset pending, leaves exactly the n windows of P, in list order, each
\* with its entry's title, position, size and type, all of them new.
C7_PresetResult ==
  [][ (lastOp.op = "preset" /\ lastOp'.op = "timer" /\ Len(timers) = 1) =>
        /\ PresetMatches(windows', lastOp.id)
        /\ \A i \in DOMAIN windows' : windows'[i].id >= nextId
        /\ \A i, j \in DOMAIN windows' : i # j => windows'[i].id # windows'[j].id ]_vars

\* the Tiled preset applied from the layout menu and completed at once
C7_Witness ==
  /\ lastOp = Op("timer", 3, FALSE)
  /\ steps = 3
  /\ Len(windows) = 4
  /\ windows[4].title = "Bottom Right"

\* C8: once no preset application is pending, the collection holds exactly the
\* windows of the preset applied last.
C8_PresetAtomic ==
  (lastOp.op = "timer" /\ timers = <<>>) => PresetMatches(windows, lastOp.id)

\* the rectangles of two window records do not overlap
Disjoint(a, b) ==
  \/ a.position.x + a.size.width <= b.position.x
  \/ b.position.x + b.size.width <= a.position.x
  \/ a.position.y + a.size.height <= b.position.y
  \/ b.position.y + b.size.height <= a.position.y

\* C9: arrangeWindows('tile') over n >= 1 visible windows uses cols =
\* ceil(sqrt(n)), rows = ceil(n / cols), puts the k-th visible window in cell
\* (k mod cols, floor(k / cols)); distinct visible windows get distinct cells
\* and rectangles that do not overlap.
C9_TileCells ==
  [][ lastOp'.op = "tile" =>
        LET vis == SelectSeq(windows, LAMBDA w : ~w.isMinimized)
            n == Len(vis)
            cols == CHOOSE c \in 1..n : c * c >= n /\ (c - 1) * (c - 1) < n
            rows == CHOOSE r \in 1..n : r * cols >= n /\ (r - 1) * cols < n
            cellW == (viewport.innerWidth - 100) \div cols
            cellH == (viewport.innerHeight - 150) \div rows
            after(k) == WindowOf(windows', vis[k].id)
        IN n >= 1 =>
             /\ \A k \in 1..n :
                  /\ after(k).position.x = 50 + ((k - 1) % cols) * cellW
                  /\ after(k).position.y = 50 + ((k - 1) \div cols) * cellH
                  /\ after(k).size = [width |-> cellW - 10, height |-> cellH - 10]
                  /\ (k - 1) \div cols < rows
             /\ \A k1, k2 \in 1..n :
                  k1 # k2 => /\ after(k1).position # after(k2).position
                             /\ Disjoint(after(k1), after(k2)) ]_vars

\* a tile arrangement over three visible windows and a minimized one
C9_Witness ==
  /\ lastOp.op = "tile"
  /\ Len(visibleWindows(windows)) >= 3
  /\ \E i \in Live : windows[i].isMinimized /\ i < Len(windows)

\* C10: the k-th of k default creations from the empty manager has position
\* (100 + 30 (k - 1), 100 + 30 (k - 1)) and zIndex k.
C10_Cascade ==
  createRun >= 1 =>
    /\ Len(windows) = createRun
    /\ \A k \in 1..createRun :
         /\ windows[k].position = [x |-> 100 + 30 * (k - 1), y |-> 100 + 30 * (k - 1)]
         /\ windows[k].zIndex = k

\* three default creations from the empty manager
C10_Witness ==
  /\ createRun = 3
  /\ windows[3].position = [x |-> 160, y |-> 160]
  /\ windows[3].zIndex = 3

\* C11: arrangeWindows('cascade') leaves the stored position and size of every
\* window that is minimized when it is called unchanged, and the window stays
\* minimized and unrendered.
C11_CascadeSkipsMinimized ==
  [][ lastOp'.op = "cascade" =>
        \A i \in DOMAIN windows :
          windows[i].isMinimized =>
            /\ windows'[i].position = windows[i].position
            /\ windows'[i].size = windows[i].size
            /\ windows'[i].isMinimized
            /\ windows'[i].id \notin DOMAIN leaf' ]_vars

\* C12: after arrangeWindows of any mode no live window is maximized.
C12_ArrangeClearsMaximized ==
  lastOp.op \in {"cascade", "tile", "stack"} =>
    \A i \in Live : ~windows[i].isMaximized

\* C13: no live window is minimized and maximized at once.
C13_OneVisualState ==
  \A i \in Live : ~(windows[i].isMinimized /\ windows[i].isMaximized)

\* C14: every live window that is not maximized has a stored size within
\* [minSize, maxSize] on both axes.
C14_SizeWithinBounds ==
  \A i \in Live :
    ~windows[i].isMaximized =>
      /\ minSize.width <= windows[i].size.width
      /\ windows[i].size.width <= maxSize(viewport).width
      /\ minSize.height <= windows[i].size.height
      /\ windows[i].size.height <= maxSize(viewport).height

\* C15: closeWindow, focusWindow, minimizeWindow, maximizeWindow,
\* updateWindowPosition and updateWindowSize called with an id that is not in
\* the collection leave the collection and the z-index counter unchanged.
C15_UnknownIdIgnored ==
  [][ ( /\ lastOp'.op \in {"close", "focus", "minimize", "maximize",
                            "position", "size"}
        /\ ~lastOp'.hit ) =>
        /\ windows' = windows
        /\ nextZIndex' = nextZIndex ]_vars

\* C16: after two maximizeWindow(id) calls in succession the window's record
\* (maximized flag, position, size) and what the surface shows of it are what
\* they were before the first call.
C16_MaximizeRoundTrip ==
  (lastOp.op = "maximize" /\ lastOp.before.calls = 2) =>
    /\ lastOp.id \in Ids(windows)
    /\ WindowOf(windows, lastOp.id) = lastOp.before.window
    /\ rendered(windows, leaf, viewport, lastOp.id) = lastOp.before.style

\* a rendered, unmaximized window maximized and restored by two calls in
\* succession, after it was moved by the pointer
C16_Witness ==
  /\ lastOp.op = "maximize" /\ lastOp.before.calls = 2
  /\ lastOp.id \in DOMAIN leaf
  /\ ~WindowOf(windows, lastOp.id).isMaximized
  /\ leaf[lastOp.id].dragStart.x > 0
  /\ rendered(windows, leaf, viewport, lastOp.id).left = leaf[lastOp.id].position.x

\* C17: after a manager operation on geometry (updateWindowPosition,
\* updateWindowSize, arrangeWindows of any mode), every rendered window that is
\* not maximized is drawn with the position and size the manager stores for it.
C17_StoredGeometryRendered ==
  lastOp.op \in {"position", "size", "cascade", "tile", "stack", "mousemove"} =>
    \A id \in DOMAIN leaf :
      ~WindowOf(windows, id).isMaximized =>
        /\ leaf[id].position = WindowOf(windows, id).position
        /\ leaf[id].size = WindowOf(windows, id).size

\* C18: focusWindow(id) on a live id sets that window's zIndex to the counter's
\* value and advances the counter (once per call); no other field of the
\* window and no other window changes.
C18_FocusFrame ==
  [][ (lastOp'.op \in {"focus", "mousedown", "resizestart"} /\ lastOp'.hit) =>
        /\ nextZIndex' - nextZIndex \in {1, 2}
        /\ lastOp'.op # "mousedown" => nextZIndex' = nextZIndex + 1
        /\ Len(windows') = Len(windows)
        /\ \A i \in DOMAIN windows :
             IF windows[i].id = lastOp'.id
             THEN windows'[i] = [windows[i] EXCEPT !.zIndex = nextZIndex]
             ELSE windows'[i] = windows[i] ]_vars

\* an older window focused over a newer one
C18_Witness ==
  /\ lastOp.op = "focus" /\ lastOp.hit
  /\ \E i, j \in Live :
       /\ i < j
       /\ windows[i].id = lastOp.id
       /\ windows[i].zIndex > windows[j].zIndex
       /\ windows[i].zIndex = nextZIndex - 1

\* C19: minimizeWindow(id) flips only isMinimized and maximizeWindow(id) only
\* isMaximized of the window with that id; every other field, every other
\* window and the counter are unchanged.
C19_ToggleFrame ==
  [][ /\ lastOp'.op = "minimize" =>
           /\ nextZIndex' = nextZIndex
           /\ Len(windows') = Len(windows)
           /\ \A i \in DOMAIN windows :
                IF windows[i].id = lastOp'.id
                THEN windows'[i] =
                       [windows[i] EXCEPT !.isMinimized = ~windows[i].isMinimized]
                ELSE windows'[i] = windows[i]
      /\ lastOp'.op = "maximize" =>
           /\ nextZIndex' = nextZIndex
           /\ Len(windows') = Len(windows)
           /\ \A i \in DOMAIN windows :
                IF windows[i].id = lastOp'.id
                THEN windows'[i] =
                       [windows[i] EXCEPT !.isMaximized = ~windows[i].isMaximized]
                ELSE windows'[i] = windows[i] ]_vars

\* a maximized window minimized, next to another window
C19_Witness ==
  /\ lastOp.op = "minimize" /\ lastOp.hit
  /\ Len(windows) >= 2
  /\ WindowOf(windows, lastOp.id).isMinimized
  /\ WindowOf(windows, lastOp.id).isMaximized

\* C20: a pointer-up leaves the drag or resize mode, and a pointer move takes
\* effect only on a window that is in one of the modes: with no window in a
\* mode, no geometry changes through pointer moves.
C20_PointerUpEndsMode ==
  [][ /\ lastOp'.op = "mouseup" =>
           /\ Active' = {}
           /\ windows' = windows
      /\ lastOp'.op = "mousemove" =>
           /\ Active # {}
           /\ \A i \in DOMAIN windows :
                windows[i].id \notin Active => windows'[i] = windows[i]
           /\ \A id \in DOMAIN leaf \ Active : leaf'[id] = leaf[id]
      /\ (Active = {} /\ lastOp'.op \notin {"mousedown", "resizestart"}) =>
           /\ Active' = {}
           /\ \A id \in DOMAIN leaf \cap DOMAIN leaf' :
                /\ leaf'[id].position = leaf[id].position
                /\ leaf'[id].size = leaf[id].size ]_vars

\* a resize that changed the width and was then ended by a pointer-up
C20_Witness ==
  /\ lastOp.op = "mouseup"
  /\ Active = {}
  /\ \E id \in DOMAIN leaf :
       /\ leaf[id].resizeStart.width > 0
       /\ leaf[id].size.width # leaf[id].resizeStart.width

\* C21: drag mode is entered only by a pointer-down on the header of a
\* draggable, unmaximized window, resize mode only by a pointer-down on a
\* handle of a resizable, unmaximized window; entering a mode focuses the
\* window; a pointer move changes neither position nor size of a maximized
\* window.
C21_ModeEntry ==
  [][ /\ \A id \in DOMAIN leaf' :
           /\ (leaf'[id].isDragging /\ ~(id \in DOMAIN leaf /\ leaf[id].isDragging)) =>
                /\ lastOp'.op = "mousedown" /\ lastOp'.id = id
                /\ draggable /\ ~WindowOf(windows, id).isMaximized
                /\ WindowOf(windows', id).zIndex = nextZIndex
                /\ nextZIndex' > nextZIndex
           /\ (leaf'[id].isResizing /\ ~(id \in DOMAIN leaf /\ leaf[id].isResizing)) =>
                /\ lastOp'.op = "resizestart" /\ lastOp'.id = id
                /\ resizable /\ ~WindowOf(windows, id).isMaximized
                /\ WindowOf(windows', id).zIndex = nextZIndex
                /\ nextZIndex' > nextZIndex
      /\ lastOp'.op = "mousemove" =>
           \A id \in DOMAIN leaf :
             WindowOf(windows, id).isMaximized =>
               /\ WindowOf(windows', id).position = WindowOf(windows, id).position
               /\ WindowOf(windows', id).size = WindowOf(windows, id).size
               /\ leaf'[id].position = leaf[id].position
               /\ leaf'[id].size = leaf[id].size ]_vars

\* C22: the counter never decreases, advances at every createWindow and
\* focusWindow and is changed by nothing else, and a value given to a window
\* is never given again to a window created or focused later.
C22_CounterNeverReused ==
  [][ /\ nextZIndex' >= nextZIndex
      /\ lastOp'.op \in {"create", "focus", "mousedown", "resizestart"} =>
           nextZIndex' > nextZIndex
      /\ nextZIndex' # nextZIndex =>
           lastOp'.op \in {"create", "focus", "mousedown", "resizestart", "timer"}
      /\ lastOp'.op = "create" => windows'[Len(windows')].zIndex \notin handedOut
      /\ (lastOp'.op \in {"focus", "mousedown", "resizestart"} /\ lastOp'.hit) =>
           WindowOf(windows', lastOp'.id).zIndex \notin handedOut
      /\ lastOp'.op = "timer" =>
           \A i \in (Len(windows) + 1)..Len(windows') :
             /\ windows'[i].zIndex \notin handedOut
             /\ \A j \in (Len(windows) + 1)..Len(windows') :
                  i # j => windows'[i].zIndex # windows'[j].zIndex ]_vars

\* C23: after arrangeWindows('stack') every window has position (100,100) and
\* size 800x600, and the window at list index i (0-based) has zIndex i + 1.
C23_Stack ==
  lastOp.op = "stack" =>
    \A i \in Live :
      /\ windows[i].position = [x |-> 100, y |-> 100]
      /\ windows[i].size = [width |-> 800, height |-> 600]
      /\ windows[i].zIndex = (i - 1) + 1

\* a stack of two or more windows whose first window had been raised last
C23_Witness ==
  /\ lastOp.op = "stack"
  /\ Len(windows) >= 2
  /\ lastRaised = windows[1].id
  /\ \A i, j \in Live : i < j => windows[i].zIndex < windows[j].zIndex

\* C24: no two live windows created at the default position and not moved or
\* arranged since have the same position.
C24_DefaultsStagger ==
  \A i, j \in Live :
    (i # j /\ windows[i].id \in defaultPlaced /\ windows[j].id \in defaultPlaced) =>
      windows[i].position # windows[j].position

\* C25: arrangeWindows of any mode keeps the sequence of ids and each window's
\* title, type and isMinimized flag.
C25_ArrangeInPlace ==
  [][ lastOp'.op \in {"cascade", "tile", "stack"} =>
        /\ Len(windows') = Len(windows)
        /\ \A i \in DOMAIN windows :
             /\ windows'[i].id = windows[i].id
             /\ windows'[i].title = windows[i].title
             /\ windows'[i].type = windows[i].type
             /\ windows'[i].isMinimized = windows[i].isMinimized ]_vars

\* an arrangement of windows of different types, one of them minimized
C25_Witness ==
  /\ lastOp.op \in {"cascade", "tile", "stack"}
  /\ \E i, j \in Live :
       /\ windows[i].isMinimized /\ ~windows[j].isMinimized
       /\ windows[i].type # windows[j].type

\* C26: every live window's stored position has x >= 0 and y >= 0 and its
\* stored size has width > 0 and height > 0.
C26_WellFormedGeometry ==
  \A i \in Live :
    /\ windows[i].position.x >= 0 /\ windows[i].position.y >= 0
    /\ windows[i].size.width > 0 /\ windows[i].size.height > 0

\* C28: nextZIndex is strictly greater than the zIndex of every live window,
\* and a window that is created (by a button or by a preset's timer) or
\* focused receives a zIndex above that of every window existing at that
\* moment.
C28_NextAboveAll ==
  [][ /\ \A i \in DOMAIN windows' : windows'[i].zIndex < nextZIndex'
      /\ lastOp'.op \in {"create", "timer"} =>
           \A k \in (Len(windows) + 1)..Len(windows') :
             \A j \in 1..(k - 1) : windows'[k].zIndex > windows'[j].zIndex
      /\ (lastOp'.op \in {"focus", "mousedown", "resizestart"} /\ lastOp'.hit) =>
           \A i \in DOMAIN windows :
             windows[i].id # lastOp'.id =>
               WindowOf(windows', lastOp'.id).zIndex > windows[i].zIndex ]_vars

\* C29: a window minimized and then restored (two minimizeWindow calls in
\* succession) is rendered with the position, size and zIndex it was rendered
\* with before it was minimized, and has the same isMaximized flag.
C29_MinimizeRoundTrip ==
  ( /\ lastOp.op = "minimize" /\ lastOp.before.calls = 2
    /\ ~lastOp.before.window.isMinimized ) =>
    /\ rendered(windows, leaf, viewport, lastOp.id) = lastOp.before.style
    /\ WindowOf(windows, lastOp.id).isMaximized = lastOp.before.window.isMaximized
    /\ WindowOf(windows, lastOp.id).zIndex = lastOp.before.window.zIndex

\* C27: a drag-end or resize notification for a panel whose locked flag is
\* true leaves the panels unchanged.
C27_LockedPanelKept ==
  [][ ( /\ lastOp'.op \in {"paneldragend", "panelresize"}
        /\ PanelOf(panels, lastOp'.id).locked ) =>
        panels' = panels ]_vars

\* no two panes of the list share an id (splitPane names a pane after
\* Date.now(); createSession, closeSession and switchSession add no pane)
UniquePaneIds ==
  \A i, j \in DOMAIN panes : panes[i].id = panes[j].id => i = j

\* C30: after createSession, closeSession and switchSession calls that name
\* sessions of the pane, with the panes' ids distinct, every pane that has a
\* session has an activeSessionId that is the id of one of its own sessions.
C30_ActiveSessionInPane ==
  UniquePaneIds =>
    \A i \in DOMAIN panes :
      Len(panes[i].sessions) >= 1 =>
        panes[i].activeSessionId \in SessionIds(panes[i])

\* the active session of a pane was closed and the pane, still holding two or
\* more sessions, points at the last of them; a second pane stands next to it
C30_Witness ==
  /\ lastOp.op = "closesession" /\ lastOp.hit
  /\ UniquePaneIds
  /\ Len(panes) >= 2
  /\ LET pane == panes[lastOp.id]
     IN /\ Len(pane.sessions) >= 2
        /\ pane.activeSessionId = pane.sessions[Len(pane.sessions)].id

====
